---------------------------- MODULE Spec2Model ----------------------------
(***************************************************************************)
(* Model of mcp-longbridge: the CallTool request handler (src/index.ts),   *)
(* the LongBridge tool handlers and envelope builders (src/api.ts), the    *)
(* zod parameter schemas (src/constants.ts) and the date/time parsers      *)
(* (src/utils.ts).                                                         *)
(*                                                                         *)
(* Conventions.                                                            *)
(*  - An optional JavaScript value is a sequence of length 0 (undefined)   *)
(*    or 1 (the value).  The raw `arguments` of a call is such an option   *)
(*    holding a record; a key that is missing from the object is missing   *)
(*    from the record's DOMAIN.                                            *)
(*  - A string that the code inspects character by character (dates,      *)
(*    times, symbols) is a sequence of character codes: 0..9 are the       *)
(*    ASCII digits, the other codes are defined below.                     *)
(*  - A message text is a sequence of string tokens; concatenation of      *)
(*    texts is concatenation of the sequences.                             *)
(***************************************************************************)
EXTENDS Integers, Sequences, FiniteSets, TLC

(***************************************************************************)
(* Bounds of the model.                                                    *)
(***************************************************************************)
\* dispatch chains that can exist side by side
MaxChains == 2
\* calls the transport delivers in one behaviour
MaxCalls == 2
\* elements of a backend result
MaxItems == 3

Chains == 1..MaxChains

(***************************************************************************)
(* Characters and strings.                                                 *)
(***************************************************************************)
Digits == 0..9
\* an uppercase ASCII letter, the dot, and a character that is neither a
\* digit, an uppercase letter nor a dot
ChUpper == 10
ChDot == 11
ChOther == 12

Some(v) == <<v>>
None == <<>>
IsSome(o) == o # <<>>
Get(o) == o[1]

\* obj[key] of JavaScript: undefined when the key is missing
Field(obj, key) == IF key \in DOMAIN obj THEN Some(obj[key]) ELSE None

\* /^\d{n}$/ on a string
AllDigits(s) == \A i \in 1..Len(s) : s[i] \in Digits

\* Number.parseInt(s.substring(from, to), 10) for a run of digits
RECURSIVE DigitsValue(_)
DigitsValue(s) ==
  IF s = <<>> THEN 0 ELSE 10 * DigitsValue(SubSeq(s, 1, Len(s) - 1)) + s[Len(s)]

ParseIntSub(s, from, to) == DigitsValue(SubSeq(s, from + 1, to))

(***************************************************************************)
(* Faults: the values a throw statement can carry.                         *)
(*   ZodError  - zod's structured error, one issue per offending field     *)
(*   Error     - any other Error object, with its message                  *)
(*   Value     - a thrown value that is not an Error object                *)
(***************************************************************************)
Issue(path, code, message) == [path |-> path, code |-> code, message |-> message]

ZodError(issues) ==
  [kind |-> "ZodError", issues |-> issues, message |-> <<>>, value |-> "none"]
ErrorObj(message) ==
  [kind |-> "Error", issues |-> <<>>, message |-> message, value |-> "none"]
ThrownValue(v) ==
  [kind |-> "Value", issues |-> <<>>, message |-> <<>>, value |-> v]

\* results of an evaluation that can throw
Ok(v) == [threw |-> FALSE, val |-> v, fault |-> ThrownValue("none")]
Throw(f) == [threw |-> TRUE, val |-> <<>>, fault |-> f]

(***************************************************************************)
(* src/utils.ts                                                            *)
(***************************************************************************)
MsgDateFormat == <<"invalid date format, expected YYYYMMDD">>
MsgDateValue == <<"invalid date value">>
MsgTimeFormat == <<"invalid time format, expected HHMM or HHMMSS">>
MsgTimeValue == <<"invalid time value">>

\* a parser that lets the day 00 through
parseNaiveDateNoDayFloor(dateStr) ==
  IF ~(Len(dateStr) = 8 /\ AllDigits(dateStr))
  THEN Throw(ErrorObj(MsgDateFormat))
  ELSE LET year == ParseIntSub(dateStr, 0, 4)
           month == ParseIntSub(dateStr, 4, 6)
           day == ParseIntSub(dateStr, 6, 8)
       IN IF month < 1 \/ month > 12 \/ day > 31
          THEN Throw(ErrorObj(MsgDateValue))
          ELSE Ok([year |-> year, month |-> month, day |-> day])

\* a parser that lets the hour 24 through
parseTimeHour24(timeStr) ==
  IF ~((Len(timeStr) = 4 \/ Len(timeStr) = 6) /\ AllDigits(timeStr))
  THEN Throw(ErrorObj(MsgTimeFormat))
  ELSE LET hour == ParseIntSub(timeStr, 0, 2)
           minute == ParseIntSub(timeStr, 2, 4)
           second == IF Len(timeStr) > 4 THEN ParseIntSub(timeStr, 4, 6) ELSE 0
       IN IF hour < 0 \/ hour > 24 \/ minute < 0 \/ minute > 59
             \/ second < 0 \/ second > 59
          THEN Throw(ErrorObj(MsgTimeValue))
          ELSE Ok([hour |-> hour, minute |-> minute, second |-> second])

parseNaiveDate(dateStr) ==
  IF ~(Len(dateStr) = 8 /\ AllDigits(dateStr))
  THEN Throw(ErrorObj(MsgDateFormat))
  ELSE LET year == ParseIntSub(dateStr, 0, 4)
           month == ParseIntSub(dateStr, 4, 6)
           day == ParseIntSub(dateStr, 6, 8)
       IN IF month < 1 \/ month > 12 \/ day < 1 \/ day > 31
          THEN Throw(ErrorObj(MsgDateValue))
          ELSE Ok([year |-> year, month |-> month, day |-> day])

parseTime(timeStr) ==
  IF ~((Len(timeStr) = 4 \/ Len(timeStr) = 6) /\ AllDigits(timeStr))
  THEN Throw(ErrorObj(MsgTimeFormat))
  ELSE LET hour == ParseIntSub(timeStr, 0, 2)
           minute == ParseIntSub(timeStr, 2, 4)
           second == IF Len(timeStr) > 4 THEN ParseIntSub(timeStr, 4, 6) ELSE 0
       IN IF hour < 0 \/ hour > 23 \/ minute < 0 \/ minute > 59
             \/ second < 0 \/ second > 59
          THEN Throw(ErrorObj(MsgTimeValue))
          ELSE Ok([hour |-> hour, minute |-> minute, second |-> second])

\* timeStr is an option; `timeStr ? ... : ...` is false for undefined and
\* for the empty string
parseNaiveDatetime(dateStr, timeStr) ==
  LET date == parseNaiveDate(dateStr)
  IN IF date.threw THEN date
     ELSE LET time == IF IsSome(timeStr) /\ Get(timeStr) # <<>>
                      THEN parseTime(Get(timeStr))
                      ELSE Ok([hour |-> 0, minute |-> 0, second |-> 0])
          IN IF time.threw THEN time
             ELSE Ok([date |-> date.val, time |-> time.val])


(***************************************************************************)
(* JSON.stringify.  A JSON value is an atom or an array of atoms.  The     *)
(* atoms are the plain objects "e1", "e2" and the string "text", which     *)
(* serialize to a string; "undefined", for which JSON.stringify returns    *)
(* undefined; and "bigint", on which JSON.stringify throws a TypeError     *)
(* (as it does on a circular structure).                                   *)
(***************************************************************************)
JAtom(a) == [isArray |-> FALSE, atom |-> a, elems |-> <<>>]
JArray(s) == [isArray |-> TRUE, atom |-> "none", elems |-> s]

Str(tokens) == [tag |-> "string", chars |-> tokens]
Undef == [tag |-> "undefined", chars |-> <<>>]

MsgBigInt == <<"Do not know how to serialize a BigInt">>

RECURSIVE StringifyElems(_)
StringifyElems(s) ==
  IF s = <<>> THEN <<>>
  ELSE <<IF Head(s) = "undefined" THEN "null" ELSE Head(s)>> \o StringifyElems(Tail(s))

JSONstringify(v) ==
  IF v.isArray
  THEN IF \E i \in 1..Len(v.elems) : v.elems[i] = "bigint"
       THEN Throw(ErrorObj(MsgBigInt))
       ELSE Ok(Str(<<"[">> \o StringifyElems(v.elems) \o <<"]">>))
  ELSE CASE v.atom = "bigint" -> Throw(ErrorObj(MsgBigInt))
         [] v.atom = "undefined" -> Ok(Undef)
         [] OTHER -> Ok(Str(<<"json", v.atom>>))

(***************************************************************************)
(* zod-validation-error: fromError(error).toString()                       *)
(***************************************************************************)
IssueText(issue) ==
  issue.message \o (IF issue.path # <<>> THEN <<" at ">> \o issue.path ELSE <<>>)

RECURSIVE JoinIssues(_)
JoinIssues(issues) ==
  IF issues = <<>> THEN <<>>
  ELSE IF Len(issues) = 1 THEN IssueText(issues[1])
  ELSE IssueText(Head(issues)) \o <<"; ">> \o JoinIssues(Tail(issues))

fromErrorToString(error) == <<"Validation error: ">> \o JoinIssues(error.issues)

(***************************************************************************)
(* src/api.ts: the envelope builders                                       *)
(***************************************************************************)
TextBlock(text) == [type |-> "text", text |-> text]

\* isError is FALSE for an envelope without the isError key
Envelope(content, isError) == [content |-> content, isError |-> isError]

NoEnvelope == Envelope(<<>>, FALSE)

\* handleErrorResult without `isError: true`
handleErrorResultNoFlag(error) ==
  LET errorMessage ==
        IF error.kind = "ZodError" THEN Ok(Str(fromErrorToString(error)))
        ELSE IF error.kind = "Error" THEN Ok(Str(error.message))
        ELSE JSONstringify(JAtom(error.value))
  IN IF errorMessage.threw THEN errorMessage
     ELSE Ok(Envelope(<<TextBlock(errorMessage.val)>>, FALSE))

handleErrorResult(error) ==
  LET errorMessage ==
        IF error.kind = "ZodError" THEN Ok(Str(fromErrorToString(error)))
        ELSE IF error.kind = "Error" THEN Ok(Str(error.message))
        ELSE JSONstringify(JAtom(error.value))
  IN IF errorMessage.threw THEN errorMessage
     ELSE Ok(Envelope(<<TextBlock(errorMessage.val)>>, TRUE))

\* result.map(item => ({type: 'text', text: JSON.stringify(item)})): the
\* blocks built so far, or the fault of the first item that throws
RECURSIVE MapBlocks(_)
MapBlocks(result) ==
  IF result = <<>> THEN Ok(<<>>)
  ELSE LET text == JSONstringify(Head(result))
       IN IF text.threw THEN text
          ELSE LET rest == MapBlocks(Tail(result))
               IN IF rest.threw THEN rest
                  ELSE Ok(<<TextBlock(text.val)>> \o rest.val)

handleSuccessResult(result) ==
  LET content == MapBlocks(result)
  IN IF content.threw THEN content ELSE Ok(Envelope(content.val, FALSE))

(***************************************************************************)
(* zod (v3) parsing.  The parse of one schema node yields a status, the    *)
(* issues it added, its output value (an option: None is undefined) and,   *)
(* when a transform function threw, the thrown fault: zod does not catch   *)
(* what a transform throws, so the fault leaves parse() as it is.          *)
(*   valid   - no issue                                                    *)
(*   dirty   - a check (regex, min, max) failed; parsing went on           *)
(*   aborted - the value has the wrong type; nothing depends on it         *)
(***************************************************************************)
Valid(v) == [status |-> "valid", issues |-> <<>>, val |-> v, thrown |-> None]
Dirty(issues, v) == [status |-> "dirty", issues |-> issues, val |-> v, thrown |-> None]
Aborted(issues) == [status |-> "aborted", issues |-> issues, val |-> None, thrown |-> None]
Thrown(f) == [status |-> "aborted", issues |-> <<>>, val |-> None, thrown |-> Some(f)]

MsgRequired == <<"Required">>
MsgInvalidInput == <<"Invalid input">>

Required(path) == Aborted(<<Issue(path, "invalid_type", MsgRequired)>>)

\* ParseStatus.mergeObjectSync / mergeArray
MergeStatus(rs) ==
  IF \E i \in 1..Len(rs) : rs[i].status = "aborted" THEN "aborted"
  ELSE IF \E i \in 1..Len(rs) : rs[i].status = "dirty" THEN "dirty"
  ELSE "valid"

\* the issues of the results, in order (the sequence is split in halves to
\* keep the evaluation shallow on long arrays)
RECURSIVE AllIssues(_)
AllIssues(rs) ==
  IF rs = <<>> THEN <<>>
  ELSE IF Len(rs) = 1 THEN rs[1].issues
  ELSE LET mid == Len(rs) \div 2
       IN AllIssues(SubSeq(rs, 1, mid)) \o AllIssues(SubSeq(rs, mid + 1, Len(rs)))

\* the keys are parsed in the order of the shape: the first transform that
\* throws ends the parse
RECURSIVE FirstThrown(_)
FirstThrown(rs) ==
  IF rs = <<>> THEN None
  ELSE IF IsSome(Head(rs).thrown) THEN Head(rs).thrown
  ELSE FirstThrown(Tail(rs))

\* schema.parse(): the output, a ZodError, or what a transform threw
Finish(rs, status, issues, value) ==
  IF IsSome(FirstThrown(rs)) THEN Throw(Get(FirstThrown(rs)))
  ELSE IF status # "valid" \/ issues # <<>> THEN Throw(ZodError(issues))
  ELSE Ok(value)

\* z.object(...) applied to the raw arguments: not an object
NotAnObject == Throw(ZodError(<<Issue(<<>>, "invalid_type", MsgRequired)>>))

(***************************************************************************)
(* src/constants.ts: the schemas                                           *)
(***************************************************************************)
MsgSymbol == <<"Symbol must be in the format of ticker.region">>
MsgMaxSymbols == <<"The maximum number of symbols in each request is 500">>

\* /^[A-Z0-9]+\.[A-Z]+$/
SymbolRegex(s) ==
  \E d \in 1..Len(s) :
    /\ s[d] = ChDot
    /\ d > 1
    /\ d < Len(s)
    /\ \A i \in 1..(d - 1) : s[i] \in Digits \/ s[i] = ChUpper
    /\ \A i \in (d + 1)..Len(s) : s[i] = ChUpper

SymbolSchema(path, o) ==
  IF ~IsSome(o) THEN Required(path)
  ELSE IF ~SymbolRegex(Get(o))
       THEN Dirty(<<Issue(path, "invalid_string", MsgSymbol)>>, o)
       ELSE Valid(o)

\* SymbolSchema.optional()
OptionalSymbol(path, o) == IF ~IsSome(o) THEN Valid(None) ELSE SymbolSchema(path, o)

MaxSymbols == 500

ElementResults(path, arr) ==
  [i \in 1..Len(arr) |-> SymbolSchema(path \o <<ToString(i - 1)>>, Some(arr[i]))]

\* an array schema on which .max(500, ...) is never applied
SymbolArrayUnbounded(path, o, bounded) ==
  IF ~IsSome(o) THEN Required(path)
  ELSE LET arr == Get(o)
           rs == ElementResults(path, arr)
           issues == AllIssues(rs)
       IN IF MergeStatus(rs) = "aborted" THEN Aborted(issues)
          ELSE IF issues # <<>> THEN Dirty(issues, o)
          ELSE Valid(o)

\* z.array(SymbolSchema), with .max(500, ...) when bounded
SymbolArray(path, o, bounded) ==
  IF ~IsSome(o) THEN Required(path)
  ELSE LET arr == Get(o)
           tooBig == IF bounded /\ Len(arr) > MaxSymbols
                     THEN <<Issue(path, "too_big", MsgMaxSymbols)>> ELSE <<>>
           rs == ElementResults(path, arr)
           issues == tooBig \o AllIssues(rs)
       IN IF MergeStatus(rs) = "aborted" THEN Aborted(issues)
          ELSE IF issues # <<>> THEN Dirty(issues, o)
          ELSE Valid(o)

OptionalSymbolArray(path, o) ==
  IF ~IsSome(o) THEN Valid(None) ELSE SymbolArray(path, o, FALSE)

\* z.number().int().min(1).max(1000); the inputs are integers
MinCount == 1
MaxCount == 1000

\* the checks with the upper bound off by one
CountChecksLoose(path, n) ==
  (IF n < MinCount THEN <<Issue(path, "too_small", <<"Number must be greater than or equal to 1">>)>>
   ELSE <<>>)
  \o (IF n > MaxCount + 1 THEN <<Issue(path, "too_big", <<"Number must be less than or equal to 1000">>)>>
      ELSE <<>>)

CountChecks(path, n) ==
  (IF n < MinCount THEN <<Issue(path, "too_small", <<"Number must be greater than or equal to 1">>)>>
   ELSE <<>>)
  \o (IF n > MaxCount THEN <<Issue(path, "too_big", <<"Number must be less than or equal to 1000">>)>>
      ELSE <<>>)

CountSchema(path, o) ==
  IF ~IsSome(o) THEN Required(path)
  ELSE IF CountChecks(path, Get(o)) # <<>> THEN Dirty(CountChecks(path, Get(o)), o)
  ELSE Valid(o)

\* a z.union of z.literal values: the value is one of the listed literals
LiteralUnion(path, o, literals) ==
  IF IsSome(o) /\ Get(o) \in literals THEN Valid(o)
  ELSE Aborted(<<Issue(path, "invalid_union", MsgInvalidInput)>>)

OptionalLiteralUnion(path, o, literals) ==
  IF ~IsSome(o) THEN Valid(None) ELSE LiteralUnion(path, o, literals)

PeriodLiterals ==
  {"Min_1", "Min_2", "Min_3", "Min_5", "Min_10", "Min_15", "Min_20", "Min_30",
   "Min_45", "Min_60", "Min_120", "Min_180", "Min_240", "Day", "Week", "Month",
   "Quarter", "Year"}

AdjustTypeLiterals == {"NoAdjust", "ForwardAdjust"}

QueryByOffset == 1
QueryByDate == 2
QueryTypeLiterals == {QueryByOffset, QueryByDate}

DirectionLiterals == {0, 1}

CurrencyLiterals == {"HKD", "USD", "CNH"}

CalcIndexLiterals ==
  {"LastDone", "ChangeValue", "ChangeRate", "Volume", "Turnover", "YtdChangeRate",
   "TurnoverRate", "TotalMarketValue", "CapitalFlow", "Amplitude", "VolumeRatio",
   "PeTtmRatio", "PbRatio", "DividendRatioTtm", "FiveDayChangeRate",
   "TenDayChangeRate", "HalfYearChangeRate", "FiveMinutesChangeRate", "ExpiryDate",
   "StrikePrice", "UpperStrikePrice", "LowerStrikePrice", "OutstandingQty",
   "OutstandingRatio", "Premium", "ItmOtm", "ImpliedVolatility", "WarrantDelta",
   "CallPrice", "ToCallPrice", "EffectiveLeverage", "LeverageRatio",
   "ConversionRatio", "BalancePoint", "OpenInterest", "Delta", "Gamma", "Theta",
   "Vega", "Rho"}

\* date_request: z.object({start_date, end_date}).transform(...).optional()
DateRequestSchema(path, o) ==
  IF ~IsSome(o) THEN Valid(None)
  ELSE LET value == Get(o)
           start_date == Field(value, "start_date")
           end_date == Field(value, "end_date")
           missing ==
             (IF ~IsSome(start_date)
              THEN <<Issue(path \o <<"start_date">>, "invalid_type", MsgRequired)>>
              ELSE <<>>)
             \o (IF ~IsSome(end_date)
                 THEN <<Issue(path \o <<"end_date">>, "invalid_type", MsgRequired)>>
                 ELSE <<>>)
       IN IF missing # <<>> THEN Aborted(missing)
          ELSE LET start == parseNaiveDate(Get(start_date))
                   end == parseNaiveDate(Get(end_date))
               IN IF start.threw THEN Thrown(start.fault)
                  ELSE IF end.threw THEN Thrown(end.fault)
                  ELSE Valid(Some([start |-> start.val, end |-> end.val]))

DefaultCount == 10

\* count: z.number().int().min(1).max(1000).optional().default(10)
OffsetCountSchema(path, o) ==
  IF ~IsSome(o) THEN Valid(Some(DefaultCount)) ELSE CountSchema(path, o)

\* a transform that parses the minute whether or not a date comes with it
OffsetTransformEagerMinute(value) ==
  LET date == IF IsSome(value) THEN Field(Get(value), "date") ELSE None
      minute == IF IsSome(value) THEN Field(Get(value), "minute") ELSE None
      time == IF IsSome(minute) THEN parseTime(Get(minute)) ELSE Ok(<<>>)
      datetime == IF IsSome(date) /\ Get(date) # <<>>
                  THEN parseNaiveDatetime(Get(date), minute)
                  ELSE Ok(<<>>)
  IN IF time.threw THEN Thrown(time.fault)
     ELSE IF datetime.threw THEN Thrown(datetime.fault)
     ELSE Valid(Some([forward |-> IsSome(value) /\ Get(value).direction = 1,
                      datetime |-> IF IsSome(date) /\ Get(date) # <<>>
                                   THEN Some(datetime.val) ELSE None,
                      count |-> IF IsSome(value) THEN Some(Get(value).count) ELSE None]))

\* the transform of offset_request: value is an option (value?.x)
OffsetTransform(value) ==
  LET date == IF IsSome(value) THEN Field(Get(value), "date") ELSE None
      minute == IF IsSome(value) THEN Field(Get(value), "minute") ELSE None
      datetime == IF IsSome(date) /\ Get(date) # <<>>
                  THEN parseNaiveDatetime(Get(date), minute)
                  ELSE Ok(<<>>)
  IN IF datetime.threw THEN Thrown(datetime.fault)
     ELSE Valid(Some([forward |-> IsSome(value) /\ Get(value).direction = 1,
                      datetime |-> IF IsSome(date) /\ Get(date) # <<>>
                                   THEN Some(datetime.val) ELSE None,
                      count |-> IF IsSome(value) THEN Some(Get(value).count) ELSE None]))

\* offset_request: z.object({direction, date, minute, count}).optional()
\*                  .transform(...): the transform also runs on undefined
OffsetRequestSchema(path, o) ==
  IF ~IsSome(o) THEN OffsetTransform(None)
  ELSE LET value == Get(o)
           direction == LiteralUnion(path \o <<"direction">>,
                                     Field(value, "direction"), DirectionLiterals)
           count == OffsetCountSchema(path \o <<"count">>, Field(value, "count"))
           rs == <<direction, count>>
       IN IF MergeStatus(rs) = "aborted" THEN Aborted(AllIssues(rs))
          ELSE IF MergeStatus(rs) = "dirty" THEN Dirty(AllIssues(rs), o)
          ELSE OffsetTransform(
                 Some([k \in DOMAIN value \cup {"count"} |->
                         IF k = "count" THEN Get(count.val) ELSE value[k]]))

\* the refinement with the sub-objects of the two modes swapped
CandlesticksRefineSwapped(data) ==
  IF data.query_type = QueryByOffset /\ ~IsSome(data.date_request) THEN FALSE
  ELSE IF data.query_type = QueryByDate /\ ~IsSome(data.offset_request) THEN FALSE
  ELSE TRUE

\* the .refine() of QuoteHistoryCandlesticksSchema: TRUE when the data
\* passes.  !x is true of undefined only: an object is truthy
CandlesticksRefine(data) ==
  IF data.query_type = QueryByOffset /\ ~IsSome(data.offset_request) THEN FALSE
  ELSE IF data.query_type = QueryByDate /\ ~IsSome(data.date_request) THEN FALSE
  ELSE TRUE

QuoteHistoryCandlesticksSchema(raw) ==
  IF ~IsSome(raw) THEN NotAnObject
  ELSE LET args == Get(raw)
           symbol == SymbolSchema(<<"symbol">>, Field(args, "symbol"))
           period == LiteralUnion(<<"period">>, Field(args, "period"), PeriodLiterals)
           adjust_type == LiteralUnion(<<"adjust_type">>, Field(args, "adjust_type"),
                                       AdjustTypeLiterals)
           query_type == LiteralUnion(<<"query_type">>, Field(args, "query_type"),
                                      QueryTypeLiterals)
           date_request == DateRequestSchema(<<"date_request">>,
                                             Field(args, "date_request"))
           offset_request == OffsetRequestSchema(<<"offset_request">>,
                                                 Field(args, "offset_request"))
           rs == <<symbol, period, adjust_type, query_type, date_request, offset_request>>
           status == MergeStatus(rs)
           data == [symbol |-> Get(symbol.val),
                    period |-> Get(period.val),
                    adjust_type |-> Get(adjust_type.val),
                    query_type |-> Get(query_type.val),
                    date_request |-> date_request.val,
                    offset_request |-> offset_request.val]
           refined == IF status # "aborted" /\ ~CandlesticksRefine(data)
                      THEN <<Issue(<<"query_type">>, "custom", MsgInvalidInput)>>
                      ELSE <<>>
       IN Finish(rs, status, AllIssues(rs) \o refined, data)

\* z.object({symbol: z.array(SymbolSchema).max(500, ...)})
QuoteStaticInfoSchema(raw) ==
  IF ~IsSome(raw) THEN NotAnObject
  ELSE LET symbol == SymbolArray(<<"symbol">>, Field(Get(raw), "symbol"), TRUE)
           rs == <<symbol>>
       IN Finish(rs, MergeStatus(rs), AllIssues(rs), [symbol |-> Get(symbol.val)])

QuoteRealtimeInfoSchema(raw) ==
  IF ~IsSome(raw) THEN NotAnObject
  ELSE LET symbol == SymbolArray(<<"symbol">>, Field(Get(raw), "symbol"), TRUE)
           rs == <<symbol>>
       IN Finish(rs, MergeStatus(rs), AllIssues(rs), [symbol |-> Get(symbol.val)])

\* z.object({symbol: SymbolSchema}): QuoteDepthSchema, QuoteIntradaySchema,
\* QuoteCapitalFlowSchema, QuoteCapitalDistributionSchema
SingleSymbolSchema(raw) ==
  IF ~IsSome(raw) THEN NotAnObject
  ELSE LET symbol == SymbolSchema(<<"symbol">>, Field(Get(raw), "symbol"))
           rs == <<symbol>>
       IN Finish(rs, MergeStatus(rs), AllIssues(rs), [symbol |-> Get(symbol.val)])

QuoteTradesSchema(raw) ==
  IF ~IsSome(raw) THEN NotAnObject
  ELSE LET symbol == SymbolSchema(<<"symbol">>, Field(Get(raw), "symbol"))
           count == CountSchema(<<"count">>, Field(Get(raw), "count"))
           rs == <<symbol, count>>
       IN Finish(rs, MergeStatus(rs), AllIssues(rs),
                 [symbol |-> Get(symbol.val), count |-> Get(count.val)])

\* calc_index: z.array(z.union([z.literal(CalcIndex.LastDone), ...]))
CalcIndexArray(path, o) ==
  IF ~IsSome(o) THEN Required(path)
  ELSE LET arr == Get(o)
           bad == {i \in 1..Len(arr) : arr[i] \notin CalcIndexLiterals}
       IN IF bad # {}
          THEN Aborted(<<Issue(path \o <<ToString((CHOOSE i \in bad : \A j \in bad : i <= j) - 1)>>,
                               "invalid_union", MsgInvalidInput)>>)
          ELSE Valid(o)

QuoteCalcIndexSchema(raw) ==
  IF ~IsSome(raw) THEN NotAnObject
  ELSE LET symbols == SymbolArray(<<"symbols">>, Field(Get(raw), "symbols"), TRUE)
           calc_index == CalcIndexArray(<<"calc_index">>, Field(Get(raw), "calc_index"))
           rs == <<symbols, calc_index>>
       IN Finish(rs, MergeStatus(rs), AllIssues(rs),
                 [symbols |-> Get(symbols.val), calc_index |-> Get(calc_index.val)])

\* z.string().datetime().optional().transform(v => v ? new Date(v) : undefined)
IsoDatetimes == {"2024-05-01T00:00:00Z", "2024-05-02T00:00:00Z"}

DatetimeSchema(path, o) ==
  IF ~IsSome(o) THEN Valid(None)
  ELSE IF Get(o) \notin IsoDatetimes
       THEN Dirty(<<Issue(path, "invalid_string", <<"Invalid datetime">>)>>, o)
       ELSE Valid(Some([date |-> Get(o)]))

TradeHistoryExecutionsSchema(raw) ==
  IF ~IsSome(raw) THEN NotAnObject
  ELSE LET symbol == OptionalSymbol(<<"symbol">>, Field(Get(raw), "symbol"))
           startAt == DatetimeSchema(<<"startAt">>, Field(Get(raw), "startAt"))
           endAt == DatetimeSchema(<<"endAt">>, Field(Get(raw), "endAt"))
           rs == <<symbol, startAt, endAt>>
       IN Finish(rs, MergeStatus(rs), AllIssues(rs),
                 [symbol |-> symbol.val, startAt |-> startAt.val, endAt |-> endAt.val])

TradeTodayExecutionsSchema(raw) ==
  IF ~IsSome(raw) THEN NotAnObject
  ELSE LET symbol == OptionalSymbol(<<"symbol">>, Field(Get(raw), "symbol"))
           rs == <<symbol>>
       IN Finish(rs, MergeStatus(rs), AllIssues(rs),
                 [symbol |-> symbol.val, orderId |-> Field(Get(raw), "orderId")])

TradeAccountBalanceSchema(raw) ==
  IF ~IsSome(raw) THEN NotAnObject
  ELSE LET currency == OptionalLiteralUnion(<<"currency">>, Field(Get(raw), "currency"),
                                            CurrencyLiterals)
           rs == <<currency>>
       IN Finish(rs, MergeStatus(rs), AllIssues(rs), [currency |-> currency.val])

TradeStockPositionsSchema(raw) ==
  IF ~IsSome(raw) THEN NotAnObject
  ELSE LET symbol == OptionalSymbolArray(<<"symbol">>, Field(Get(raw), "symbol"))
           rs == <<symbol>>
       IN Finish(rs, MergeStatus(rs), AllIssues(rs), [symbol |-> symbol.val])

(***************************************************************************)
(* src/constants.ts: the tools                                             *)
(***************************************************************************)
Tool ==
  {"quote-static-info", "quote-realtime-info", "quote-depth", "quote-trades",
   "quote-intraday", "quote-history-candlesticks", "quote-capital-flow",
   "quote-capital-distribution", "quote-calc-index", "quote-watch-list",
   "trade-history-executions", "trade-today-executions", "trade-account-balance",
   "trade-stock-positions"}

\* ToolNameSchema.safeParse(name): z.nativeEnum(Tool) on a string
ToolNameSafeParse(name) ==
  IF name \in Tool THEN Ok(name)
  ELSE Throw(ZodError(<<Issue(<<>>, "invalid_enum_value",
                              <<"Invalid enum value. Expected a tool name, received ", name>>)>>))

\* TOOLS_CONFIG[name].funcName
FuncName(name) ==
  CASE name = "quote-static-info" -> "quoteStaticInfo"
    [] name = "quote-realtime-info" -> "quoteRealtimeInfo"
    [] name = "quote-depth" -> "quoteDepth"
    [] name = "quote-trades" -> "quoteTrades"
    [] name = "quote-intraday" -> "quoteIntraday"
    [] name = "quote-history-candlesticks" -> "quoteHistoryCandlesticks"
    [] name = "quote-capital-flow" -> "quoteCapitalFlow"
    [] name = "quote-capital-distribution" -> "quoteCapitalDistribution"
    [] name = "quote-calc-index" -> "quoteCalcIndex"
    [] name = "quote-watch-list" -> "quoteWatchList"
    [] name = "trade-history-executions" -> "tradeHistoryExecutions"
    [] name = "trade-today-executions" -> "tradeTodayExecutions"
    [] name = "trade-account-balance" -> "tradeAccountBalance"
    [] name = "trade-stock-positions" -> "tradeStockPositions"

\* a registry in which one key was written for another
TOOLS_CONFIG_Miskeyed ==
  <<"quote-static-info", "quote-realtime-info", "quote-depth", "quote-trades",
    "quote-intraday", "quote-history-candlesticks", "quote-capital-flow",
    "quote-capital-distribution", "quote-calc-index", "quote-calc-index",
    "trade-history-executions", "trade-today-executions", "trade-account-balance",
    "trade-stock-positions">>

\* Object.entries(TOOLS_CONFIG): the keys of the object literal, in the order
\* they are written
TOOLS_CONFIG ==
  <<"quote-static-info", "quote-realtime-info", "quote-depth", "quote-trades",
    "quote-intraday", "quote-history-candlesticks", "quote-capital-flow",
    "quote-capital-distribution", "quote-calc-index", "quote-watch-list",
    "trade-history-executions", "trade-today-executions", "trade-account-balance",
    "trade-stock-positions">>

\* index.ts, the ListToolsRequestSchema handler: one entry per key of
\* TOOLS_CONFIG, with the name and the handler the key stands for (the
\* description and the JSON schema of the entry are not modelled)
ListToolsResult ==
  [i \in 1..Len(TOOLS_CONFIG) |->
     [name |-> TOOLS_CONFIG[i], funcName |-> FuncName(TOOLS_CONFIG[i])]]

(***************************************************************************)
(* src/api.ts: the tool handlers, cut at their await points.  Each has    *)
(* the shape                                                               *)
(*     try { params = Schema.parse(args)            -- ParseArgs           *)
(*           ctx = await this.getXContext()         -- ContextKind         *)
(*           result = await ctx.op(...)             -- BackendCall         *)
(*           return this.handleSuccessResult(...)   -- ResultItems         *)
(*     } catch (error) { return this.handleErrorResult(error) }            *)
(***************************************************************************)
NoParams == [none |-> TRUE]

\* the first statement of the handler; quoteWatchList parses nothing
ParseArgs(func, raw) ==
  CASE func = "quoteStaticInfo" -> QuoteStaticInfoSchema(raw)
    [] func = "quoteRealtimeInfo" -> QuoteRealtimeInfoSchema(raw)
    [] func = "quoteDepth" -> SingleSymbolSchema(raw)
    [] func = "quoteTrades" -> QuoteTradesSchema(raw)
    [] func = "quoteIntraday" -> SingleSymbolSchema(raw)
    [] func = "quoteHistoryCandlesticks" -> QuoteHistoryCandlesticksSchema(raw)
    [] func = "quoteCapitalFlow" -> SingleSymbolSchema(raw)
    [] func = "quoteCapitalDistribution" -> SingleSymbolSchema(raw)
    [] func = "quoteCalcIndex" -> QuoteCalcIndexSchema(raw)
    [] func = "quoteWatchList" -> Ok(NoParams)
    [] func = "tradeHistoryExecutions" -> TradeHistoryExecutionsSchema(raw)
    [] func = "tradeTodayExecutions" -> TradeTodayExecutionsSchema(raw)
    [] func = "tradeAccountBalance" -> TradeAccountBalanceSchema(raw)
    [] func = "tradeStockPositions" -> TradeStockPositionsSchema(raw)

\* QuoteWatchListSchema: z.object({})
QuoteWatchListSchema(raw) == IF ~IsSome(raw) THEN NotAnObject ELSE Ok(NoParams)

\* TOOLS_CONFIG[name].zodSchema.parse(raw): the schema the registry holds for
\* the tool, which is the one its handler parses with, except for
\* quoteWatchList, whose handler parses nothing
ZodSchema(name, raw) ==
  IF name = "quote-watch-list" THEN QuoteWatchListSchema(raw)
  ELSE ParseArgs(FuncName(name), raw)

TradeFuncs ==
  {"tradeHistoryExecutions", "tradeTodayExecutions", "tradeAccountBalance",
   "tradeStockPositions"}

\* which of getTradeContext / getQuoteContext the handler awaits
ContextKind(func) == IF func \in TradeFuncs THEN "trade" ELSE "quote"

\* x?.f of an option
OptField(o, key) == IF IsSome(o) THEN Some(Get(o)[key]) ELSE None

\* (x ?? d) of an option
OrElse(o, d) == IF IsSome(o) THEN Get(o) ELSE d

Request(op, args) == [ev |-> "request", op |-> op, args |-> args]

\* the backend operation the handler calls, with its arguments
BackendCall(func, params) ==
  CASE func = "quoteStaticInfo" -> Request("staticInfo", <<params.symbol>>)
    [] func = "quoteRealtimeInfo" -> Request("quote", <<params.symbol>>)
    [] func = "quoteDepth" -> Request("depth", <<params.symbol>>)
    [] func = "quoteTrades" -> Request("trades", <<params.symbol, params.count>>)
    [] func = "quoteIntraday" -> Request("intraday", <<params.symbol>>)
    [] func = "quoteHistoryCandlesticks" ->
         IF params.query_type = 1
         THEN Request("historyCandlesticksByOffset",
                      <<params.symbol, params.period, params.adjust_type,
                        OptField(params.offset_request, "forward"),
                        IF IsSome(params.offset_request)
                        THEN Get(params.offset_request).datetime ELSE None,
                        OrElse(IF IsSome(params.offset_request)
                               THEN Get(params.offset_request).count ELSE None,
                               10)>>)
         ELSE Request("historyCandlesticksByDate",
                      <<params.symbol, params.period, params.adjust_type,
                        OptField(params.date_request, "start"),
                        OptField(params.date_request, "end")>>)
    [] func = "quoteCapitalFlow" -> Request("capitalFlow", <<params.symbol>>)
    [] func = "quoteCapitalDistribution" ->
         Request("capitalDistribution", <<params.symbol>>)
    [] func = "quoteCalcIndex" ->
         Request("calcIndexes", <<params.symbols, params.calc_index>>)
    [] func = "quoteWatchList" -> Request("watchlist", <<>>)
    [] func = "tradeHistoryExecutions" -> Request("historyExecutions", <<params>>)
    [] func = "tradeTodayExecutions" -> Request("todayExecutions", <<params>>)
    [] func = "tradeAccountBalance" -> Request("accountBalance", <<params.currency>>)
    [] func = "tradeStockPositions" -> Request("stockPositions", <<params.symbol>>)

\* the handlers that spread the backend's collection into
\* handleSuccessResult(...items); the others pass the result as one item.
\* tradeStockPositions spreads the channels of its result.
SpreadFuncs ==
  {"quoteStaticInfo", "quoteRealtimeInfo", "quoteTrades", "quoteWatchList",
   "tradeHistoryExecutions", "tradeTodayExecutions", "tradeAccountBalance",
   "tradeStockPositions"}

\* every handler passing its result as one item
ResultItemsWhole(func, result) == <<JArray(result)>>

\* every handler spreading its result
ResultItemsSpread(func, result) == [i \in 1..Len(result) |-> JAtom(result[i])]

\* the arguments of handleSuccessResult for a backend result holding the
\* elements `result`
ResultItems(func, result) ==
  IF func \in SpreadFuncs
  THEN [i \in 1..Len(result) |-> JAtom(result[i])]
  ELSE <<JArray(result)>>

(***************************************************************************)
(* The inputs: what the transport delivers and what the environment and    *)
(* the backend answer.                                                     *)
(***************************************************************************)
GoodSymbol == <<ChUpper, ChUpper, ChDot, ChUpper>>
DigitSymbol == <<7, ChUpper, ChDot, ChUpper>>
BadSymbol == <<ChUpper, ChDot, ChOther>>

GoodDate == <<2, 0, 2, 3, 1, 0, 1, 6>>
LooseDate == <<2, 0, 2, 3, 0, 2, 3, 0>>
BadValueDate == <<2, 0, 2, 3, 1, 3, 0, 1>>
BadFormatDate == <<2, 0, 2, 3, 1, 0, 1>>

GoodMinute == <<0, 9, 3, 5>>
BadMinute == <<2, 4, 6, 0>>

\* rec with key set to the value of the option o, or rec itself for None
With(rec, key, o) ==
  IF IsSome(o)
  THEN [k \in DOMAIN rec \cup {key} |-> IF k = key THEN Get(o) ELSE rec[k]]
  ELSE rec

\* an object holding none of the keys a schema reads
Bare == [note |-> "x"]

Opt(S) == {None} \cup {Some(v) : v \in S}

DateRequests ==
  {[start_date |-> a, end_date |-> b] :
     a \in {GoodDate, BadValueDate, BadFormatDate}, b \in {GoodDate, LooseDate}}
  \cup {[start_date |-> GoodDate, end_date |-> BadValueDate], [start_date |-> GoodDate]}

OffsetRequests ==
  {With(With([direction |-> d], "date", date), "minute", minute) :
     d \in {0, 1},
     date \in Opt({GoodDate, BadValueDate}),
     minute \in Opt({GoodMinute})}
  \cup {[direction |-> 0, count |-> 5],
        [direction |-> 1, count |-> 1000, date |-> LooseDate],
        [direction |-> 1, count |-> 1001],
        [direction |-> 0, count |-> 0],
        [direction |-> 1, date |-> GoodDate, minute |-> BadMinute],
        [direction |-> 1, minute |-> BadMinute],
        [direction |-> 1, date |-> <<>>, minute |-> GoodMinute],
        [direction |-> 0, date |-> <<>>, minute |-> BadMinute],
        [direction |-> 2]}

CandlestickArgs ==
  {With(With([symbol |-> GoodSymbol, period |-> "Day", adjust_type |-> "NoAdjust",
              query_type |-> q], "date_request", dr), "offset_request", orq) :
     q \in QueryTypeLiterals,
     dr \in Opt(DateRequests),
     orq \in Opt(OffsetRequests)}
  \cup {With(With([symbol |-> BadSymbol, period |-> "Min_1", adjust_type |-> "NoAdjust",
                   query_type |-> q], "date_request", dr), "offset_request", orq) :
          q \in QueryTypeLiterals,
          dr \in Opt({[start_date |-> GoodDate, end_date |-> GoodDate]}),
          orq \in Opt({[direction |-> 1, count |-> 1001]})}
  \cup {[symbol |-> GoodSymbol, period |-> "Hour", adjust_type |-> "NoAdjust",
         query_type |-> QueryByDate],
        [symbol |-> GoodSymbol, period |-> "Week", adjust_type |-> "ForwardAdjust",
         query_type |-> 3],
        Bare}

\* lists of well-formed symbols at the maximum length and one beyond it
FullSymbolList == [i \in 1..MaxSymbols |-> GoodSymbol]
LongSymbolList == [i \in 1..(MaxSymbols + 1) |-> GoodSymbol]

SymbolLists ==
  {<<>>, <<GoodSymbol>>, <<GoodSymbol, DigitSymbol>>, <<GoodSymbol, BadSymbol>>,
   FullSymbolList, LongSymbolList}

\* the argument objects the model sends to a tool
ObjectsFor(name) ==
  CASE name \in {"quote-static-info", "quote-realtime-info"} ->
         {Bare} \cup {[symbol |-> l] : l \in SymbolLists}
    [] name \in {"quote-depth", "quote-intraday", "quote-capital-flow",
                 "quote-capital-distribution"} ->
         {Bare, [symbol |-> GoodSymbol], [symbol |-> BadSymbol]}
    [] name = "quote-trades" ->
         {Bare} \cup {[symbol |-> sym, count |-> n] :
                        sym \in {GoodSymbol, BadSymbol}, n \in {0, 1, 1000, 1001}}
    [] name = "quote-history-candlesticks" -> CandlestickArgs
    [] name = "quote-calc-index" ->
         {Bare, [symbols |-> <<GoodSymbol>>]}
         \cup {[symbols |-> l, calc_index |-> ci] :
                 l \in SymbolLists,
                 ci \in {<<>>, <<"LastDone", "Volume">>, <<"LastDone", "Bogus">>}}
    [] name = "quote-watch-list" -> {Bare}
    [] name = "trade-history-executions" ->
         {With(With(With(Bare, "symbol", sym), "startAt", a), "endAt", b) :
            sym \in Opt({GoodSymbol, BadSymbol}),
            a \in Opt({"2024-05-01T00:00:00Z", "yesterday"}),
            b \in Opt({"2024-05-02T00:00:00Z"})}
    [] name = "trade-today-executions" ->
         {With(With(Bare, "symbol", sym), "orderId", id) :
            sym \in Opt({GoodSymbol, BadSymbol}), id \in Opt({"701276261045858304"})}
    [] name = "trade-account-balance" ->
         {With(Bare, "currency", cur) : cur \in Opt({"HKD", "USD", "CNH", "EUR"})}
    [] name = "trade-stock-positions" ->
         {With(Bare, "symbol", l) : l \in Opt(SymbolLists)}
    [] OTHER -> {Bare}

\* request.params.arguments: undefined or an object
ArgumentsFor(name) == Opt(ObjectsFor(name))

UnknownNames == {"not-a-tool", "quoteDepth"}
RequestNames == Tool \cup UnknownNames

\* the elements a backend result can hold
Elements == {"e1", "e2", "bigint"}

RECURSIVE SeqsUpTo(_, _)
SeqsUpTo(S, n) ==
  IF n = 0 THEN {<<>>}
  ELSE LET shorter == SeqsUpTo(S, n - 1)
       IN shorter \cup {Append(q, x) : q \in {r \in shorter : Len(r) = n - 1}, x \in S}

\* what a rejected promise of the longport SDK can carry
Faults ==
  {ErrorObj(<<"backend failure">>), ThrownValue("text"), ThrownValue("undefined"),
   ThrownValue("bigint")}

SessionOutcomes == {Ok("handle")} \cup {Throw(f) : f \in Faults}
BackendOutcomes == {Ok(r) : r \in SeqsUpTo(Elements, MaxItems)} \cup {Throw(f) : f \in Faults}

(***************************************************************************)
(* The state.                                                              *)
(***************************************************************************)
VARIABLES
  pc,           \* per chain: where the handler of the call stands
  req,          \* per chain: the call's name and arguments
  inst,         \* per chain: the fields of the LongBridge object of the call
  trace,        \* per chain: what the call did to the world, in order
  outcome,      \* per chain: what the backend operation answered
  env,          \* per chain: the envelope the handler returned
  caught,       \* per chain: the fault handed to handleErrorResult
  constructed,  \* per session kind: constructions started in this process
  started,      \* calls delivered so far
  environ,      \* whether the environment holds the three credentials
  catalog,      \* the answer to the last catalog query, if there was one
  parseCall,    \* the parser call under test, if there is one
  parseResult   \* what the parser call returned or threw

vars ==
  <<pc, req, inst, trace, outcome, env, caught, constructed, started, environ,
    catalog, parseCall, parseResult>>

\* no parser call is under test
NoParseCall == [fn |-> "none", dateStr |-> <<>>, timeStr |-> None]

NoRequest == [name |-> "none", args |-> None]

\* new LongBridge(): no field is set
NewLongBridge == [config |-> FALSE, tradeContext |-> None, quoteContext |-> None]

ContextField(kind) == IF kind = "trade" THEN "tradeContext" ELSE "quoteContext"

Invoke(func) == [ev |-> "handler", func |-> func]
FromEnv == [ev |-> "fromEnv"]
Construct(kind, id) == [ev |-> "construct", kind |-> kind, id |-> id]

MsgNoCredentials == <<"missing environment variable">>

Init ==
  /\ pc = [c \in Chains |-> "idle"]
  /\ req = [c \in Chains |-> NoRequest]
  /\ inst = [c \in Chains |-> NewLongBridge]
  /\ trace = [c \in Chains |-> <<>>]
  /\ outcome = [c \in Chains |-> None]
  /\ env = [c \in Chains |-> NoEnvelope]
  /\ caught = [c \in Chains |-> None]
  /\ constructed = [quote |-> 0, trade |-> 0]
  /\ started = 0
  /\ environ \in {"ok", "missing"}
  /\ catalog = None
  /\ parseCall = NoParseCall
  /\ parseResult = None

(***************************************************************************)
(* The handler's steps.  A step runs from one await point to the next.     *)
(***************************************************************************)
\* the handler returns the envelope e to the transport
Returns(c, e) ==
  /\ pc' = [pc EXCEPT ![c] = "returned"]
  /\ env' = [env EXCEPT ![c] = e]

\* a fault leaves the handler: its promise is rejected
Rejects(c) ==
  /\ pc' = [pc EXCEPT ![c] = "rejected"]
  /\ env' = [env EXCEPT ![c] = NoEnvelope]

\* catch (error) { return this.handleErrorResult(error) }: what
\* handleErrorResult throws is not caught again
Caught(c, fault) ==
  LET r == handleErrorResult(fault)
  IN /\ caught' = [caught EXCEPT ![c] = Some(fault)]
     /\ IF r.threw THEN Rejects(c) ELSE Returns(c, r.val)

\* the unknown name thrown instead of returned
NameRejectedThrows(c, fault) ==
  /\ caught' = [caught EXCEPT ![c] = Some(fault)]
  /\ Rejects(c)

\* index.ts, `return longBridge.handleErrorResult(error)` in the async
\* request handler
NameRejected(c, fault) ==
  LET r == handleErrorResult(fault)
  IN /\ caught' = [caught EXCEPT ![c] = Some(fault)]
     /\ IF r.threw THEN Rejects(c) ELSE Returns(c, r.val)

\* ctx.op(...) is called and awaited
CallsBackend(c, func, params, sofar) ==
  /\ trace' = [trace EXCEPT ![c] = sofar \o <<BackendCall(func, params)>>]
  /\ pc' = [pc EXCEPT ![c] = "awaitBackend"]
  /\ env' = env
  /\ caught' = caught

\* getTradeContext / getQuoteContext up to its await, on the object `this`:
\* the field is set, or the config getter runs (Config.fromEnv() on its
\* first use) and the construction of the context starts
GetContext(c, this, kind, func, params) ==
  IF IsSome(this[ContextField(kind)])
  THEN /\ CallsBackend(c, func, params, <<Invoke(func)>>)
       /\ inst' = [inst EXCEPT ![c] = this]
       /\ UNCHANGED constructed
  ELSE IF ~this.config /\ environ = "missing"
  THEN /\ Caught(c, ErrorObj(MsgNoCredentials))
       /\ trace' = [trace EXCEPT ![c] = <<Invoke(func), FromEnv>>]
       /\ inst' = [inst EXCEPT ![c] = this]
       /\ UNCHANGED constructed
  ELSE /\ pc' = [pc EXCEPT ![c] = "awaitSession"]
       /\ env' = env
       /\ caught' = caught
       /\ trace' = [trace EXCEPT ![c] =
                      <<Invoke(func)>>
                      \o (IF this.config THEN <<>> ELSE <<FromEnv>>)
                      \o <<Construct(kind, constructed[kind] + 1)>>]
       /\ inst' = [inst EXCEPT ![c] = [this EXCEPT !.config = TRUE]]
       /\ constructed' = [constructed EXCEPT ![kind] = @ + 1]

\* index.ts: the CallToolRequestSchema handler, to its first await
Dispatch(c, name, args) ==
  /\ pc[c] = "idle"
  /\ started < MaxCalls
  /\ started' = started + 1
  /\ req' = [req EXCEPT ![c] = [name |-> name, args |-> args]]
  /\ outcome' = outcome
  /\ environ' = environ
  /\ UNCHANGED <<catalog, parseCall, parseResult>>
  /\ LET longBridge == NewLongBridge
         parsed == ToolNameSafeParse(name)
     IN IF parsed.threw
        THEN /\ NameRejected(c, parsed.fault)
             /\ inst' = [inst EXCEPT ![c] = longBridge]
             /\ UNCHANGED <<trace, constructed>>
        ELSE LET func == FuncName(parsed.val)
                 params == ParseArgs(func, args)
             IN IF params.threw
                THEN /\ Caught(c, params.fault)
                     /\ inst' = [inst EXCEPT ![c] = longBridge]
                     /\ trace' = [trace EXCEPT ![c] = <<Invoke(func)>>]
                     /\ UNCHANGED constructed
                ELSE GetContext(c, longBridge, ContextKind(func), func, params.val)

\* the id of the construction the chain started
PendingId(c) == trace[c][Len(trace[c])].id

\* TradeContext.new / QuoteContext.new settles: the field is assigned and
\* the handler goes on to its backend call, or the fault is caught
SessionDone(c, o) ==
  /\ pc[c] = "awaitSession"
  /\ LET func == FuncName(req[c].name)
         kind == ContextKind(func)
     IN IF o.threw
        THEN /\ Caught(c, o.fault)
             /\ UNCHANGED <<inst, trace>>
        ELSE /\ inst' = [inst EXCEPT ![c][ContextField(kind)] = Some(PendingId(c))]
             /\ CallsBackend(c, func, ParseArgs(func, req[c].args).val, trace[c])
  /\ UNCHANGED <<req, outcome, constructed, started, environ>>
  /\ UNCHANGED <<catalog, parseCall, parseResult>>

\* the backend operation settles: the envelope is built, or the fault is
\* caught; a fault of handleSuccessResult is caught the same way
BackendDone(c, o) ==
  /\ pc[c] = "awaitBackend"
  /\ outcome' = [outcome EXCEPT ![c] = Some(o)]
  /\ IF o.threw
     THEN Caught(c, o.fault)
     ELSE LET r == handleSuccessResult(ResultItems(FuncName(req[c].name), o.val))
          IN IF r.threw THEN Caught(c, r.fault)
             ELSE Returns(c, r.val) /\ caught' = caught
  /\ UNCHANGED <<req, inst, trace, constructed, started, environ>>
  /\ UNCHANGED <<catalog, parseCall, parseResult>>

\* the transport has sent the answer: the request, its LongBridge object
\* and the result are garbage
Respond(c) ==
  /\ pc[c] \in {"returned", "rejected"}
  /\ pc' = [pc EXCEPT ![c] = "idle"]
  /\ req' = [req EXCEPT ![c] = NoRequest]
  /\ inst' = [inst EXCEPT ![c] = NewLongBridge]
  /\ trace' = [trace EXCEPT ![c] = <<>>]
  /\ outcome' = [outcome EXCEPT ![c] = None]
  /\ env' = [env EXCEPT ![c] = NoEnvelope]
  /\ caught' = [caught EXCEPT ![c] = None]
  /\ UNCHANGED <<constructed, started, environ>>
  /\ UNCHANGED <<catalog, parseCall, parseResult>>

\* index.ts: the ListToolsRequestSchema handler answers a catalog query
ListTools ==
  /\ catalog' = Some(ListToolsResult)
  /\ UNCHANGED <<pc, req, inst, trace, outcome, env, caught, constructed, started,
                 environ, parseCall, parseResult>>

\* no other call is in flight
Alone(c) == \A d \in Chains \ {c} : pc[d] = "idle"

(***************************************************************************)
(* SpecParse: one call of a parser of utils.ts, on a string drawn from     *)
(* DateStrings / TimeStrings.                                              *)
(***************************************************************************)
DateStrings ==
  {y \o m \o d :
     y \in {<<2, 0, 2, 3>>, <<0, 0, 0, 0>>},
     m \in {<<0, 0>>, <<0, 1>>, <<0, 2>>, <<1, 2>>, <<1, 3>>},
     d \in {<<0, 0>>, <<0, 1>>, <<3, 0>>, <<3, 1>>, <<3, 2>>}}
  \cup {GoodDate, LooseDate, BadValueDate, BadFormatDate, <<>>,
        GoodDate \o <<0>>, <<2, 0, 2, 3, ChOther, 1, 0, 1>>,
        <<ChUpper, 0, 2, 3, 1, 0, 1, 6>>, <<2, 0, 2, 3, 1, 0, 1, ChDot>>}

TimeStrings ==
  {h \o m \o sec :
     h \in {<<0, 0>>, <<0, 9>>, <<2, 3>>, <<2, 4>>},
     m \in {<<0, 0>>, <<3, 5>>, <<5, 9>>, <<6, 0>>},
     sec \in {<<>>, <<0, 0>>, <<5, 9>>, <<6, 0>>}}
  \cup {GoodMinute, BadMinute, <<>>, <<0, 9, 3>>, <<0, 9, 3, 5, 0>>,
        <<0, 9, 3, 5, 0, 0, 0>>, <<0, 9, ChOther, 5>>, <<0, 9, 3, 5, 0, ChUpper>>}

\* the strings parseNaiveDatetime is called with
DatetimeDates == {GoodDate, LooseDate, BadValueDate, BadFormatDate}
DatetimeTimes ==
  {GoodMinute, BadMinute, <<>>, <<0, 9, 3, 5, 0>>, <<0, 9, 3, 5, 5, 9>>,
   <<0, 9, 3, 5, 6, 0>>, <<0, 0, 0, 0>>, <<0, 9, ChOther, 5>>}

ParseCalls ==
  {[fn |-> "parseNaiveDate", dateStr |-> d, timeStr |-> None] : d \in DateStrings}
  \cup {[fn |-> "parseTime", dateStr |-> <<>>, timeStr |-> Some(t)] : t \in TimeStrings}
  \cup {[fn |-> "parseNaiveDatetime", dateStr |-> d, timeStr |-> t] :
          d \in DatetimeDates, t \in Opt(DatetimeTimes)}

InitParse ==
  /\ pc = [c \in Chains |-> "idle"]
  /\ req = [c \in Chains |-> NoRequest]
  /\ inst = [c \in Chains |-> NewLongBridge]
  /\ trace = [c \in Chains |-> <<>>]
  /\ outcome = [c \in Chains |-> None]
  /\ env = [c \in Chains |-> NoEnvelope]
  /\ caught = [c \in Chains |-> None]
  /\ constructed = [quote |-> 0, trade |-> 0]
  /\ started = 0
  /\ environ = "ok"
  /\ catalog = None
  /\ parseCall \in ParseCalls
  /\ parseResult = None

\* the call returns or throws
ParserReturns(r) ==
  /\ parseResult = None
  /\ parseResult' = Some(r)
  /\ UNCHANGED <<pc, req, inst, trace, outcome, env, caught, constructed, started,
                 environ, catalog, parseCall>>

CallParseNaiveDate ==
  /\ parseCall.fn = "parseNaiveDate"
  /\ ParserReturns(parseNaiveDate(parseCall.dateStr))

CallParseTime ==
  /\ parseCall.fn = "parseTime"
  /\ ParserReturns(parseTime(Get(parseCall.timeStr)))

CallParseNaiveDatetime ==
  /\ parseCall.fn = "parseNaiveDatetime"
  /\ ParserReturns(parseNaiveDatetime(parseCall.dateStr, parseCall.timeStr))

NextParse == CallParseNaiveDate \/ CallParseTime \/ CallParseNaiveDatetime

SpecParse == InitParse /\ [][NextParse]_vars

(***************************************************************************)
(* Spec: the transport delivers one call at a time, with every tool and    *)
(* the full range of arguments and answers.                                *)
(***************************************************************************)
Next ==
  \E c \in Chains :
    \/ /\ pc[c] = "idle"
       /\ Alone(c)
       /\ \E name \in RequestNames : \E args \in ArgumentsFor(name) :
            Dispatch(c, name, args)
    \/ /\ pc[c] = "awaitSession"
       /\ \E o \in SessionOutcomes : SessionDone(c, o)
    \/ /\ pc[c] = "awaitBackend"
       /\ \E o \in BackendOutcomes : BackendDone(c, o)
    \/ Respond(c)

Spec == Init /\ [][Next]_vars

(***************************************************************************)
(* SpecConc: the transport delivers calls without waiting for the answers  *)
(* of the earlier ones; the calls and answers are a few of each kind.      *)
(***************************************************************************)
ConcNames == {"quote-depth", "quote-intraday", "trade-account-balance", "not-a-tool"}
ConcArguments == {Some([symbol |-> GoodSymbol]), Some(Bare)}
ConcSessionOutcomes == {Ok("handle"), Throw(ErrorObj(<<"backend failure">>))}
ConcBackendOutcomes == {Ok(<<"e1">>), Throw(ErrorObj(<<"backend failure">>))}

NextConc ==
  \/ \E c \in Chains :
       \/ /\ pc[c] = "idle"
          /\ \E name \in ConcNames : \E args \in ConcArguments : Dispatch(c, name, args)
       \/ /\ pc[c] = "awaitSession"
          /\ \E o \in ConcSessionOutcomes : SessionDone(c, o)
       \/ /\ pc[c] = "awaitBackend"
          /\ \E o \in ConcBackendOutcomes : BackendDone(c, o)
       \/ Respond(c)
  \/ ListTools

SpecConc == Init /\ [][NextConc]_vars

(***************************************************************************)
(* SpecFair: overlapping calls whose awaited promises all settle.  The     *)
(* promise of a construction or of a backend operation settles with a      *)
(* value, with an Error or with a thrown value that is not an Error; the   *)
(* event loop then resumes the handler awaiting it (weak fairness on the   *)
(* two continuations of every call).  The code between two awaits runs to  *)
(* completion inside one step and needs no fairness.                       *)
(***************************************************************************)
FairSessionOutcomes == ConcSessionOutcomes \cup {Throw(ThrownValue("bigint"))}
FairBackendOutcomes == ConcBackendOutcomes \cup {Throw(ThrownValue("bigint"))}

SessionSettles(c) == \E o \in FairSessionOutcomes : SessionDone(c, o)
BackendSettles(c) == \E o \in FairBackendOutcomes : BackendDone(c, o)

NextFair ==
  \E c \in Chains :
    \/ /\ pc[c] = "idle"
       /\ \E name \in ConcNames : \E args \in ConcArguments : Dispatch(c, name, args)
    \/ /\ pc[c] = "awaitSession"
       /\ SessionSettles(c)
    \/ /\ pc[c] = "awaitBackend"
       /\ BackendSettles(c)
    \/ Respond(c)

Fairness ==
  \A c \in Chains : WF_vars(SessionSettles(c)) /\ WF_vars(BackendSettles(c))

SpecFair == Init /\ [][NextFair]_vars /\ Fairness

(***************************************************************************)
(* SpecCatalog: catalog queries at any moment between and during calls to  *)
(* every tool with the full range of arguments; the answers of the SDK are *)
(* a few of each kind.                                                     *)
(***************************************************************************)
NextCatalog ==
  \/ \E c \in Chains :
       \/ /\ pc[c] = "idle"
          /\ Alone(c)
          /\ \E name \in RequestNames : \E args \in ArgumentsFor(name) :
               Dispatch(c, name, args)
       \/ /\ pc[c] = "awaitSession"
          /\ \E o \in ConcSessionOutcomes : SessionDone(c, o)
       \/ /\ pc[c] = "awaitBackend"
          /\ \E o \in ConcBackendOutcomes : BackendDone(c, o)
       \/ Respond(c)
  \/ ListTools

SpecCatalog == Init /\ [][NextCatalog]_vars

(***************************************************************************)
(* Properties.                                                             *)
(***************************************************************************)
Name(c) == req[c].name
Completed(c) == pc[c] \in {"returned", "rejected"}
Events(c, ev) == {i \in 1..Len(trace[c]) : trace[c][i].ev = ev}
Candlestick(c) == Name(c) = "quote-history-candlesticks" /\ IsSome(req[c].args)
ArgIs(c, key, v) == Field(Get(req[c].args), key) = Some(v)
ArgMissing(c, key) == Field(Get(req[c].args), key) = None

\* an envelope with the error flag and exactly one text block
ErrorEnvelope(e) ==
  /\ e.isError
  /\ Len(e.content) = 1
  /\ e.content[1].type = "text"

\* the serializations of the elements of a backend result and of the
\* result as a whole
ResultTexts(r) ==
  {Str(<<"json", r[j]>>) : j \in {k \in 1..Len(r) : r[k] # "bigint"}}
  \cup {Str(<<"[">> \o r \o <<"]">>)}

\* C1: every dispatch completes by returning an envelope: no fault leaves
\* the call handler, whatever the session construction or the backend
\* operation throws.
C1_FaultContainment == \A c \in Chains : pc[c] # "rejected"

\* C2: every returned envelope is a success envelope (no error flag, every
\* block the serialization of the backend's result or of one of its
\* elements) or an error envelope (error flag, exactly one text block, which
\* is no serialized result), also when the fault came after the result.
C2_EnvelopeInvariant ==
  \A c \in Chains :
    pc[c] = "returned" =>
      \/ /\ ~env[c].isError
         /\ IsSome(outcome[c])
         /\ ~Get(outcome[c]).threw
         /\ \A i \in 1..Len(env[c].content) :
              /\ env[c].content[i].type = "text"
              /\ env[c].content[i].text \in ResultTexts(Get(outcome[c]).val)
      \/ /\ ErrorEnvelope(env[c])
         /\ IsSome(caught[c])
         /\ IsSome(outcome[c]) /\ ~Get(outcome[c]).threw =>
              env[c].content[1].text \notin ResultTexts(Get(outcome[c]).val)

\* a fault after the result: the second element of a spread result does not
\* serialize, and the envelope is an error envelope
C2_Witness ==
  \E c \in Chains :
    /\ pc[c] = "returned"
    /\ Name(c) = "quote-realtime-info"
    /\ outcome[c] = Some(Ok(<<"e1", "bigint">>))
    /\ ErrorEnvelope(env[c])

\* C3: a call of a name outside the registry returns an error envelope
\* whose one text block is a message holding the name, and it invokes no
\* handler, reads no configuration, constructs no session and issues no
\* backend request.
C3_UnknownName ==
  \A c \in Chains :
    Name(c) \in UnknownNames =>
      /\ pc[c] = "returned"
      /\ ErrorEnvelope(env[c])
      /\ env[c].content[1].text.tag = "string"
      /\ \E i \in 1..Len(env[c].content[1].text.chars) :
           env[c].content[1].text.chars[i] = Name(c)
      /\ trace[c] = <<>>
      /\ inst[c] = NewLongBridge
      /\ outcome[c] = None

C3_Witness ==
  \E c \in Chains :
    /\ Name(c) = "not-a-tool"
    /\ pc[c] = "returned"
    /\ env[c].isError

\* C4: calls of getSession for one kind that overlap start one construction
\* between them, and the handles the callers hold are the same handle.
C4_SingleConstruction ==
  \A c, d \in Chains :
    /\ c # d
    /\ pc[c] \in {"awaitSession", "awaitBackend"}
    /\ pc[d] \in {"awaitSession", "awaitBackend"}
    /\ ContextKind(FuncName(Name(c))) = ContextKind(FuncName(Name(d)))
    => LET kind == ContextKind(FuncName(Name(c)))
       IN /\ Cardinality(Events(c, "construct")) + Cardinality(Events(d, "construct")) = 1
          /\ IsSome(inst[c][ContextField(kind)]) /\ IsSome(inst[d][ContextField(kind)])
               => inst[c][ContextField(kind)] = inst[d][ContextField(kind)]

\* C5: over any sequence of calls in one process each session kind is
\* constructed at most once.
C5_ConstructedOnce == \A kind \in {"quote", "trade"} : constructed[kind] <= 1

\* C6: a history-candlestick call with query_type = 1 and no offset_request
\* fails validation: it returns an error envelope and issues no backend
\* request (nor waits for a session).
C6_OffsetRequired ==
  \A c \in Chains :
    Candlestick(c) /\ ArgIs(c, "query_type", QueryByOffset) /\ ArgMissing(c, "offset_request") =>
      /\ pc[c] = "returned"
      /\ env[c].isError
      /\ Events(c, "request") = {}

\* C7: a history-candlestick call with query_type = 2 and no date_request
\* fails validation, with or without an offset_request: it returns an error
\* envelope and never reaches the session or the backend.
C7_DateRequired ==
  \A c \in Chains :
    Candlestick(c) /\ ArgIs(c, "query_type", QueryByDate) /\ ArgMissing(c, "date_request") =>
      /\ pc[c] = "returned"
      /\ ErrorEnvelope(env[c])
      /\ IsSome(caught[c])
      /\ trace[c] = <<Invoke("quoteHistoryCandlesticks")>>

\* by-date without date_request but with a well-formed offset_request
C7_Witness ==
  \E c \in Chains :
    /\ Candlestick(c)
    /\ ArgIs(c, "symbol", GoodSymbol)
    /\ ArgIs(c, "query_type", QueryByDate)
    /\ ArgMissing(c, "date_request")
    /\ ArgIs(c, "offset_request", [direction |-> 1, date |-> GoodDate])
    /\ pc[c] = "returned"
    /\ env[c].isError

CollectionTools ==
  {"trade-account-balance", "trade-stock-positions", "trade-history-executions",
   "trade-today-executions", "quote-static-info", "quote-realtime-info"}

SingleBlockTools ==
  {"quote-depth", "quote-intraday", "quote-capital-flow", "quote-capital-distribution",
   "quote-calc-index", "quote-history-candlesticks"}

Succeeded(c) == pc[c] = "returned" /\ ~env[c].isError

\* C8: a successful call of a collection tool returns one block per element
\* of the backend's collection, block i the serialization of element i.
C8_CollectionBlocks ==
  \A c \in Chains :
    Succeeded(c) /\ Name(c) \in CollectionTools =>
      /\ IsSome(outcome[c])
      /\ ~Get(outcome[c]).threw
      /\ Len(env[c].content) = Len(Get(outcome[c]).val)
      /\ \A i \in 1..Len(env[c].content) :
           env[c].content[i] = TextBlock(Str(<<"json", Get(outcome[c]).val[i]>>))

C8_Witness ==
  \E c \in Chains :
    /\ Succeeded(c)
    /\ Name(c) = "trade-stock-positions"
    /\ outcome[c] = Some(Ok(<<"e2", "e1", "e2">>))

\* C9: a successful call of market depth, intraday, capital flow, capital
\* distribution, computed indexes or history candlesticks returns exactly
\* one block, however many elements the backend's result holds.
C9_SingleBlock ==
  \A c \in Chains :
    Succeeded(c) /\ Name(c) \in SingleBlockTools =>
      /\ Len(env[c].content) = 1
      /\ IsSome(outcome[c])
      /\ env[c].content[1] = TextBlock(Str(<<"[">> \o Get(outcome[c]).val \o <<"]">>))

C9_Witness ==
  \E c \in Chains :
    /\ Succeeded(c)
    /\ Name(c) = "quote-calc-index"
    /\ Len(Get(outcome[c]).val) = 3

\* C10: whenever the validation of the arguments of a registered tool
\* fails, the fault handed to the envelope builder is the structured
\* validation error (a ZodError with its issues), never a flat fault.
C10_StructuredValidationError ==
  \A c \in Chains :
    /\ pc[c] = "returned"
    /\ Name(c) \in Tool
    /\ trace[c] = <<Invoke(FuncName(Name(c)))>>
    => /\ IsSome(caught[c])
       /\ Get(caught[c]).kind = "ZodError"
       /\ Get(caught[c]).issues # <<>>

\* the names of the catalog the last query answered with
CatalogNames == {Get(catalog)[i].name : i \in 1..Len(Get(catalog))}

\* C11: the names the catalog lists, the names the dispatcher resolves to a
\* handler and the enumerated tool names are one set, the catalog lists no
\* name twice, and this holds after every sequence of catalog queries and
\* calls.
C11_RegistryConsistency ==
  /\ {n \in RequestNames : ~ToolNameSafeParse(n).threw} = Tool
  /\ IsSome(catalog) =>
       /\ CatalogNames = Tool
       /\ Len(Get(catalog)) = Cardinality(Tool)
       /\ \A c \in Chains :
            Name(c) # "none" =>
              (Name(c) \in CatalogNames <=> Events(c, "handler") # {})
       /\ \A c \in Chains : \A i \in Events(c, "handler") :
            \E j \in 1..Len(Get(catalog)) :
              /\ Get(catalog)[j].name = Name(c)
              /\ Get(catalog)[j].funcName = trace[c][i].func

\* a catalog was queried and a call to a tool it lists has completed
C11_Witness ==
  /\ IsSome(catalog)
  /\ \E c \in Chains : pc[c] = "returned" /\ Name(c) = "quote-watch-list"
                        /\ Events(c, "handler") # {}

\* the tools whose symbol field is a list, and the key of that field
BoundedListTools == {"quote-static-info", "quote-realtime-info", "quote-calc-index"}
SymbolListTools == BoundedListTools \cup {"trade-stock-positions"}
SymbolListKey(name) == IF name = "quote-calc-index" THEN "symbols" ELSE "symbol"

\* the symbol list the call of the chain carries, if it carries one
SymbolList(c) ==
  IF IsSome(req[c].args) THEN Field(Get(req[c].args), SymbolListKey(Name(c))) ELSE None

WellFormed(l) == \A i \in 1..Len(l) : SymbolRegex(l[i])

\* the fields of the call other than the symbol list are valid
OtherFieldsValid(c) ==
  Name(c) = "quote-calc-index" =>
    LET ci == Field(Get(req[c].args), "calc_index")
    IN IsSome(ci) /\ \A i \in 1..Len(Get(ci)) : Get(ci)[i] \in CalcIndexLiterals

\* the call of the chain ended in a validation error before any session or
\* backend access
FailedValidation(c) ==
  /\ pc[c] = "returned"
  /\ ErrorEnvelope(env[c])
  /\ IsSome(caught[c]) /\ Get(caught[c]).kind = "ZodError"
  /\ trace[c] = <<Invoke(FuncName(Name(c)))>>

\* the handler of the chain went on past the validation of its arguments
PassedValidation(c) == pc[c] # "idle" /\ Events(c, "fromEnv") # {}

\* C12 (as stated): for each of the four tools with a list-valued symbol
\* field, stock positions included, a list of more than 500 symbols fails
\* validation and never reaches the backend, and a list of at most 500
\* well-formed symbols passes.
C12_SymbolListBound ==
  \A c \in Chains :
    Name(c) \in SymbolListTools /\ IsSome(SymbolList(c)) =>
      /\ Len(Get(SymbolList(c))) > MaxSymbols => FailedValidation(c)
      /\ Len(Get(SymbolList(c))) <= MaxSymbols
           /\ WellFormed(Get(SymbolList(c))) /\ OtherFieldsValid(c) => PassedValidation(c)

\* C12 (amended): the bound of 500 holds for static info, real-time quotes
\* and computed indexes: more than 500 symbols fail validation before any
\* session or backend access, at most 500 well-formed symbols pass.  The
\* symbol list of stock positions is optional and has no maximum: every
\* list of well-formed symbols passes, one of more than 500 included.
C12_SymbolListBoundAmended ==
  \A c \in Chains :
    IsSome(SymbolList(c)) =>
      /\ Name(c) \in BoundedListTools =>
           /\ Len(Get(SymbolList(c))) > MaxSymbols => FailedValidation(c)
           /\ Len(Get(SymbolList(c))) <= MaxSymbols
                /\ WellFormed(Get(SymbolList(c))) /\ OtherFieldsValid(c)
                => PassedValidation(c)
      /\ Name(c) = "trade-stock-positions" /\ WellFormed(Get(SymbolList(c)))
           => PassedValidation(c)

\* a list of 501 well-formed symbols reached the backend of stock positions
C12_Witness ==
  \E c \in Chains :
    /\ Name(c) = "trade-stock-positions"
    /\ SymbolList(c) = Some(LongSymbolList)
    /\ Events(c, "request") # {}

\* a field of the offset_request the call of the chain carries, if any
OffsetField(c, key) ==
  IF ArgMissing(c, "offset_request") THEN None
  ELSE Field(Get(Field(Get(req[c].args), "offset_request")), key)

\* C13: for a by-offset candlestick request, the count passed to the backend
\* is the supplied count when it is in [1, 1000] and 10 when none is
\* supplied, a count outside [1, 1000] fails validation, the anchor passed
\* is undefined ('latest') when no anchor date is supplied, and the
\* direction flag passed is forward exactly when direction is 1.
C13_OffsetDefaults ==
  \A c \in Chains :
    Candlestick(c) /\ ArgIs(c, "query_type", QueryByOffset) =>
      LET count == OffsetField(c, "count")
          date == OffsetField(c, "date")
          direction == OffsetField(c, "direction")
      IN /\ IsSome(count) /\ Get(count) \notin MinCount..MaxCount =>
              /\ pc[c] = "returned"
              /\ ErrorEnvelope(env[c])
              /\ ~PassedValidation(c)
         /\ \A i \in Events(c, "request") :
              /\ trace[c][i].op = "historyCandlesticksByOffset"
              /\ trace[c][i].args[6] = IF IsSome(count) THEN Get(count) ELSE DefaultCount
              /\ IsSome(count) => Get(count) \in MinCount..MaxCount
              /\ ~IsSome(date) => trace[c][i].args[5] = None
              /\ trace[c][i].args[4] = Some(direction = Some(1))

\* a by-offset request with count 1000 and direction 1 reached the backend,
\* forward and with that count
C13_Witness ==
  \E c \in Chains :
    /\ Candlestick(c)
    /\ ArgIs(c, "query_type", QueryByOffset)
    /\ OffsetField(c, "count") = Some(MaxCount)
    /\ OffsetField(c, "direction") = Some(1)
    /\ \E i \in Events(c, "request") :
         trace[c][i].args[4] = Some(TRUE) /\ trace[c][i].args[6] = MaxCount

\* the number two decimal digits at positions i and i + 1 of s write
TwoDigits(s, i) == 10 * s[i] + s[i + 1]

\* s is n decimal digits
DigitString(s, n) == Len(s) = n /\ \A i \in 1..n : s[i] \in 0..9

\* C14: parseDate succeeds exactly when the string is 8 ASCII digits whose
\* month digits read 1..12 and day digits read 1..31, and then returns the
\* three digit groups as numbers, with no calendar check ("20230230"
\* succeeds); it throws the format error when the string is not 8 digits
\* ("2023101") and the value error when it is but a group is out of range
\* ("20231301").
C14_ParseDate ==
  parseCall.fn = "parseNaiveDate" /\ IsSome(parseResult) =>
    LET s == parseCall.dateStr
        r == Get(parseResult)
        shaped == DigitString(s, 8)
        inRange == TwoDigits(s, 5) \in 1..12 /\ TwoDigits(s, 7) \in 1..31
    IN /\ ~r.threw <=> (shaped /\ inRange)
       /\ ~r.threw =>
            r.val = [year |-> 100 * TwoDigits(s, 1) + TwoDigits(s, 3),
                     month |-> TwoDigits(s, 5), day |-> TwoDigits(s, 7)]
       /\ ~shaped => r.threw /\ r.fault = ErrorObj(MsgDateFormat)
       /\ shaped /\ ~inRange => r.threw /\ r.fault = ErrorObj(MsgDateValue)
       /\ s = LooseDate => ~r.threw
       /\ s = BadFormatDate => r.threw /\ r.fault = ErrorObj(MsgDateFormat)
       /\ s = BadValueDate => r.threw /\ r.fault = ErrorObj(MsgDateValue)

\* parseDate returned 30 February 2023
C14_Witness ==
  /\ parseCall.fn = "parseNaiveDate"
  /\ parseCall.dateStr = LooseDate
  /\ parseResult = Some(Ok([year |-> 2023, month |-> 2, day |-> 30]))

\* C15: parseTime succeeds exactly when the string is 4 or 6 ASCII digits
\* whose hour reads 0..23 and whose minute and second read 0..59, the second
\* being 0 for a 4-digit string; it throws the format error for a string of
\* another shape (5 digits) and the value error for "2460".
C15_ParseTime ==
  parseCall.fn = "parseTime" /\ IsSome(parseResult) =>
    LET s == Get(parseCall.timeStr)
        r == Get(parseResult)
        shaped == DigitString(s, 4) \/ DigitString(s, 6)
        second == IF Len(s) = 6 THEN TwoDigits(s, 5) ELSE 0
        inRange == /\ TwoDigits(s, 1) \in 0..23
                   /\ TwoDigits(s, 3) \in 0..59
                   /\ second \in 0..59
    IN /\ ~r.threw <=> (shaped /\ inRange)
       /\ ~r.threw =>
            r.val = [hour |-> TwoDigits(s, 1), minute |-> TwoDigits(s, 3),
                     second |-> second]
       /\ ~shaped => r.threw /\ r.fault = ErrorObj(MsgTimeFormat)
       /\ shaped /\ ~inRange => r.threw /\ r.fault = ErrorObj(MsgTimeValue)
       /\ Len(s) = 5 => r.threw /\ r.fault = ErrorObj(MsgTimeFormat)
       /\ s = BadMinute => r.threw /\ r.fault = ErrorObj(MsgTimeValue)

\* parseTime returned 09:35:00 for the 4-digit string "0935"
C15_Witness ==
  /\ parseCall.fn = "parseTime"
  /\ parseCall.timeStr = Some(GoodMinute)
  /\ parseResult = Some(Ok([hour |-> 9, minute |-> 35, second |-> 0]))

\* C16: parseDatetime(dateStr, timeStr) throws whenever parseDate(dateStr)
\* throws, throws whenever a timeStr is supplied (the empty string
\* included) and parseTime(timeStr) throws, and otherwise returns the
\* parsed date with the parsed time, midnight standing in only when no
\* timeStr is supplied.
C16_ParseDatetime ==
  parseCall.fn = "parseNaiveDatetime" /\ IsSome(parseResult) =>
    LET date == parseNaiveDate(parseCall.dateStr)
        supplied == IsSome(parseCall.timeStr)
        time == IF supplied THEN parseTime(Get(parseCall.timeStr))
                ELSE Ok([hour |-> 0, minute |-> 0, second |-> 0])
        r == Get(parseResult)
    IN /\ date.threw => r.threw
       /\ supplied /\ time.threw => r.threw
       /\ ~date.threw /\ ~time.threw => r = Ok([date |-> date.val, time |-> time.val])

\* C17: for every registered tool, validation comes before any session or
\* backend access: a call whose raw arguments do not satisfy the tool's
\* schema returns an error envelope and touches neither the credentials,
\* nor a session, nor the backend.
C17_ValidationFirst ==
  \A c \in Chains :
    Name(c) \in Tool /\ ZodSchema(Name(c), req[c].args).threw =>
      /\ pc[c] = "returned"
      /\ ErrorEnvelope(env[c])
      /\ Events(c, "fromEnv") = {}
      /\ Events(c, "construct") = {}
      /\ Events(c, "request") = {}

\* C18: the candlestick handler issues exactly one backend operation per
\* validated request that got its session, the by-offset operation exactly
\* when query_type is 1 and the by-date operation exactly when it is 2,
\* never both, and the by-date operation always with a defined start and
\* end.
C18_CandlestickOperation ==
  \A c \in Chains :
    Candlestick(c) =>
      /\ Cardinality(Events(c, "request")) <= 1
      /\ pc[c] = "awaitBackend" \/ IsSome(outcome[c]) =>
           Cardinality(Events(c, "request")) = 1
      /\ \A i \in Events(c, "request") :
           /\ trace[c][i].op \in {"historyCandlesticksByOffset", "historyCandlesticksByDate"}
           /\ trace[c][i].op = "historyCandlesticksByOffset"
                <=> ArgIs(c, "query_type", QueryByOffset)
           /\ trace[c][i].op = "historyCandlesticksByDate"
                <=> ArgIs(c, "query_type", QueryByDate)
           /\ trace[c][i].op = "historyCandlesticksByDate" =>
                IsSome(trace[c][i].args[4]) /\ IsSome(trace[c][i].args[5])

\* a by-date request was sent to the backend with its start and end
C18_Witness ==
  \E c \in Chains :
    /\ Candlestick(c)
    /\ ArgIs(c, "query_type", QueryByDate)
    /\ pc[c] = "awaitBackend"
    /\ \E i \in Events(c, "request") :
         /\ trace[c][i].op = "historyCandlesticksByDate"
         /\ trace[c][i].args[4] = Some([year |-> 2023, month |-> 10, day |-> 16])
         /\ trace[c][i].args[5] = Some([year |-> 2023, month |-> 2, day |-> 30])

\* C19: the classification of a caught fault is total and exclusive: a
\* ZodError yields the validation summary, any other Error its own message
\* unchanged, any other thrown value its serialization, and in all three
\* cases an error envelope is returned whose single block holds a string.
C19_ErrorClassification ==
  \A c \in Chains :
    IsSome(caught[c]) =>
      LET fault == Get(caught[c])
      IN /\ pc[c] = "returned"
         /\ ErrorEnvelope(env[c])
         /\ env[c].content[1].text.tag = "string"
         /\ fault.kind = "ZodError" =>
              env[c].content[1].text = Str(fromErrorToString(fault))
         /\ fault.kind = "Error" => env[c].content[1].text = Str(fault.message)
         /\ fault.kind = "Value" =>
              env[c].content[1].text = Str(<<"json", fault.value>>)

\* the construction of the session the chain awaited has failed
SessionFailed(c) ==
  /\ Completed(c)
  /\ IsSome(caught[c])
  /\ trace[c] # <<>>
  /\ trace[c][Len(trace[c])].ev = "construct"

\* C20: a failed session construction is not memoized: the dispatch that
\* started it returns an error envelope carrying the message of the
\* construction fault, and the slot of that session kind stays empty, so
\* that a later getSession for the kind constructs again.
C20_FailureNotMemoized ==
  \A c \in Chains :
    SessionFailed(c) =>
      LET fault == Get(caught[c])
          kind == ContextKind(FuncName(Name(c)))
      IN /\ pc[c] = "returned"
         /\ ErrorEnvelope(env[c])
         /\ fault.kind = "Error" => env[c].content[1].text = Str(fault.message)
         /\ inst[c][ContextField(kind)] = None

\* the call of the chain awaits a construction or a backend operation
Pending(c) == pc[c] \in {"awaitSession", "awaitBackend"}

\* C21: when every session construction and every backend operation
\* settles, every dispatch that is pending on one eventually returns an
\* envelope, however the other calls in flight interleave with it.
C21_Termination == \A c \in Chains : Pending(c) ~> (pc[c] = "returned")

\* the fields of the candlestick call other than offset_request.date and
\* offset_request.minute are valid for a by-offset query
OffsetQueryValid(c) ==
  LET args == Get(req[c].args)
      dr == Field(args, "date_request")
      count == OffsetField(c, "count")
  IN /\ ArgIs(c, "query_type", QueryByOffset)
     /\ IsSome(Field(args, "symbol")) /\ SymbolRegex(args.symbol)
     /\ IsSome(Field(args, "period")) /\ args.period \in PeriodLiterals
     /\ IsSome(Field(args, "adjust_type")) /\ args.adjust_type \in AdjustTypeLiterals
     /\ IsSome(dr) =>
          /\ IsSome(Field(Get(dr), "start_date")) /\ IsSome(Field(Get(dr), "end_date"))
          /\ ~parseNaiveDate(Get(dr).start_date).threw
          /\ ~parseNaiveDate(Get(dr).end_date).threw
     /\ ~ArgMissing(c, "offset_request")
     /\ OffsetField(c, "direction") \in {Some(d) : d \in DirectionLiterals}
     /\ IsSome(count) => Get(count) \in MinCount..MaxCount

\* C22: in a by-offset candlestick query the minute takes effect only with
\* a date: when a minute is supplied and the date is absent or empty, the
\* minute is neither parsed nor validated, so validation succeeds whatever
\* the minute string is, and the backend is queried with no datetime.
C22_MinuteNeedsDate ==
  \A c \in Chains :
    /\ Candlestick(c)
    /\ OffsetQueryValid(c)
    /\ IsSome(OffsetField(c, "minute"))
    /\ OffsetField(c, "date") \in {None, Some(<<>>)}
    => /\ PassedValidation(c)
       /\ \A i \in Events(c, "request") :
            /\ trace[c][i].op = "historyCandlesticksByOffset"
            /\ trace[c][i].args[5] = None

\* a by-offset request with the minute "2460" and no date was sent to the
\* backend without a datetime
C22_Witness ==
  \E c \in Chains :
    /\ Candlestick(c)
    /\ OffsetQueryValid(c)
    /\ OffsetField(c, "minute") = Some(BadMinute)
    /\ OffsetField(c, "date") = None
    /\ \E i \in Events(c, "request") : trace[c][i].args[5] = None

=============================================================================
